---- MODULE Spec2Model ----
(***************************************************************************)
(* QueryGeneratorBase (annotators/kbqa/query_generator_base.py): the KBQA  *)
(* candidate generator.  One request is processed to completion before the *)
(* next one starts; every collaborator (template matcher, entity linker,   *)
(* query binder, wiki parser, relation ranker, wikihow search) is an       *)
(* opaque call whose outcome is drawn from a small set.                    *)
(***************************************************************************)
EXTENDS Integers, Sequences, FiniteSets, TLC

VARIABLES
    \* constructor parameters (lines 56-59)
    syntax_structure_known, use_wp_api_requester, use_el_api_requester, use_alt_templates,
    \* instance state written by load() (lines 107-116) and by requests (131, 162, 221)
    rank_list_0, rank_list_1, template_queries, template_nums,
    \* the running operation and the position in it
    op, pc,
    \* find_candidate_answers: arguments as supplied by the caller
    template_types, arg_entities, arg_types,
    \* find_candidate_answers: what the template matcher returned to this request
    tm,
    \* find_candidate_answers: locals
    entities_from_ner, types_from_ner, entity_ids, candidate_outputs,
    \* value of candidate_outputs when line 197 is evaluated, and the returned pair
    tpl_outputs, result,
    \* collaborator calls made by the running operation, in order
    calls,
    \* find_top_rels: arguments and locals
    triplet_info, rel_entity_ids, ex_rels, rels_with_scores,
    \* RuleBasedSelector.__call__: the argument and the list being built
    states_batch, skill_names

cfgVars  == <<syntax_structure_known, use_wp_api_requester, use_el_api_requester, use_alt_templates>>
instVars == <<rank_list_0, rank_list_1, template_queries>>
argVars  == <<template_types, arg_entities, arg_types>>
fcaVars  == <<tm, entities_from_ner, types_from_ner, entity_ids, candidate_outputs, tpl_outputs, result>>
relVars  == <<triplet_info, rel_entity_ids, ex_rels, rels_with_scores>>
selVars  == <<states_batch, skill_names>>
vars     == <<cfgVars, instVars, template_nums, op, pc, argVars, fcaVars, calls, relVars, selVars>>

----------------------------------------------------------------------------
(* Bounds of the model *)

\* most NER entities a caller supplies
MaxNer == 2
\* most template numbers in the template_types argument
MaxTemplateTypes == 1
\* most entity ids the linker returns for one mention
MaxIds == 2
\* most mentions the linker answers in one payload
MaxInfos == 2
\* most relation strings in one wiki-parser payload
MaxWikiRels == 2
\* most scored relations the ranker returns
MaxRanked == 8
\* most template numbers in self.template_nums when sparql_template_parser is called directly
MaxTemplateNums == 2
\* most entity-id lists and most type-id lists handed to sparql_template_parser directly
MaxEntityIds == 2
MaxTypeIds == 1

(* Constructor defaults kept as program constants *)
rels_to_leave == 7
entities_to_leave == 5

----------------------------------------------------------------------------
(* Small value pools *)

Some(x) == <<x>>
None == <<>>

NerPool == <<"Justin", "Paris", "rome">>
\* a type list holds (tag, ...) tuples; only elem[0] is read
TypeLists == { <<>>, << <<"misc">> >>, << <<"misc">>, <<"loc">> >> }
TemplateNums == {1, 2}
IdPool == <<"Q1", "Q2", "Q3", "Q4", "Q5", "Q6">>

\* str.lower() on the mention strings of the pools
Lower(s) ==
    CASE s = "Justin" -> "justin"
      [] s = "Paris"  -> "paris"
      [] OTHER        -> s

LowerAll(entities) == [i \in 1..Len(entities) |-> Lower(entities[i])]

\* The template library as read from the JSON file, in file order.  `num` is the
\* key of the mapping; the other fields are the fields of the record.
TemplateLibrary ==
    << [num |-> 1, template_num |-> 1, entities_and_types_num |-> <<1, 0>>,
        rel_dirs |-> <<"forw">>, entities_and_types_select |-> "s1",
        alternative_templates |-> << <<3, "a13">>, <<4, "a14">> >>],
       [num |-> 2, template_num |-> 1, entities_and_types_num |-> <<1, 0>>,
        rel_dirs |-> <<"backw">>, entities_and_types_select |-> "s2",
        alternative_templates |-> << <<4, "a24">> >>],
       [num |-> 3, template_num |-> 1, entities_and_types_num |-> <<2, 0>>,
        rel_dirs |-> <<"forw", "forw">>, entities_and_types_select |-> "s3",
        alternative_templates |-> << <<1, "a31">> >>],
       [num |-> 4, template_num |-> 2, entities_and_types_num |-> <<1, 0>>,
        rel_dirs |-> <<"forw">>, entities_and_types_select |-> "s4",
        alternative_templates |-> << >>],
       [num |-> 5, template_num |-> 1, entities_and_types_num |-> <<1, 0>>,
        rel_dirs |-> <<"forw">>, entities_and_types_select |-> "s5",
        alternative_templates |-> << >>] >>

\* self.template_queries[template_num]
TemplateByKey(num) ==
    LET i == CHOOSE j \in 1..Len(template_queries) : template_queries[j].num = num
    IN  template_queries[i]

\* Strings whose characters matter are sequences of characters.
NotFound == <<"N", "o", "t", " ", "F", "o", "u", "n", "d">>
RankList0 == << <<"P", "1">>, <<"Q", "5">>, <<"P", "2">> >>
RankList1 == << <<"P", "3">>, <<>> >>

SeqsUpTo(S, n) == UNION { [1..k -> S] : k \in 0..n }

----------------------------------------------------------------------------
(* sparql_template_parser, lines 257-337 *)

\* line 272-274: which library entries a requested template number selects
TemplateMatchesNum(template, template_num) ==
    \/ (template.num = template_num /\ syntax_structure_known)
    \/ (template.template_num = template_num /\ ~syntax_structure_known)

\* lines 269-275: for every requested number, the library entries in file order
RECURSIVE TemplatesForNums(_)
TemplatesForNums(nums) ==
    IF nums = <<>> THEN <<>>
    ELSE SelectSeq(template_queries, LAMBDA t : TemplateMatchesNum(t, Head(nums)))
         \o TemplatesForNums(Tail(nums))

CountsMatch_Unchecked(template, e_ids, t_ids) == TRUE

\* lines 276-284: the slot-count filter
CountsMatch(template, e_ids, t_ids) ==
    \/ (~syntax_structure_known /\ <<Len(e_ids), Len(t_ids)>> = template.entities_and_types_num)
    \/ syntax_structure_known

EligibleTemplates(nums, e_ids, t_ids) ==
    SelectSeq(TemplatesForNums(nums), LAMBDA t : CountsMatch(t, e_ids, t_ids))

SelectByRelDirs_AnyRelDirs(templates, rel_dirs) == Some(templates[Len(templates)])

\* lines 291-293: the last eligible template with the given rel_dirs, or nothing
SelectByRelDirs(templates, rel_dirs) ==
    LET hits == SelectSeq(templates, LAMBDA t : t.rel_dirs = rel_dirs)
    IN  IF hits = <<>> THEN None ELSE Some(hits[Len(hits)])

\* One invocation of query_parser: `ok` is the set of <<template key, slot-selection
\* spec>> pairs for which the knowledge base yields something in this call.
BinderOutput(num, select, ok) ==
    IF <<num, select>> \in ok THEN << <<"query", num, select>> >> ELSE <<>>

BinderCall(line, num, select, e_ids, t_ids, rels, ok) ==
    [op |-> "query_parser", line |-> line, num |-> num, select |-> select,
     counts |-> <<Len(e_ids), Len(t_ids)>>, rels |-> rels,
     out |-> BinderOutput(num, select, ok)]

LoopCalls_NoEarlyReturn(attempts, line, e_ids, t_ids, rels, ok) ==
    [i \in 1..Len(attempts) |-> BinderCall(line, attempts[i][1], attempts[i][2], e_ids, t_ids, rels, ok)]

\* A for-loop that invokes the binder per attempt and returns at the first
\* non-empty output (lines 306-318 and 322-333): the calls made, in order.
LoopCalls(attempts, line, e_ids, t_ids, rels, ok) ==
    LET hit(i) == <<attempts[i][1], attempts[i][2]>> \in ok
        n == IF \E i \in 1..Len(attempts) : hit(i)
             THEN CHOOSE i \in 1..Len(attempts) : hit(i) /\ \A j \in 1..(i-1) : ~hit(j)
             ELSE Len(attempts)
    IN  [i \in 1..n |-> BinderCall(line, attempts[i][1], attempts[i][2], e_ids, t_ids, rels, ok)]

LastOut(log) == IF log = <<>> THEN <<>> ELSE log[Len(log)].out

PrimaryAttempts(templates) ==
    [i \in 1..Len(templates) |-> <<templates[i].num, templates[i].entities_and_types_select>>]

RECURSIVE AlternativeAttempts_AllEligible(_)
AlternativeAttempts_AllEligible(templates) ==
    IF templates = <<>> THEN <<>>
    ELSE templates[1].alternative_templates \o AlternativeAttempts_AllEligible(Tail(templates))

\* lines 320-333: alternatives are those declared by templates[0]
AlternativeAttempts(templates) == templates[1].alternative_templates

ParseUnknownRels_AlwaysAlternatives(templates, e_ids, t_ids, ok) ==
    LoopCalls(PrimaryAttempts(templates), 308, e_ids, t_ids, None, ok)
    \o LoopCalls(AlternativeAttempts(templates), 323, e_ids, t_ids, None, ok)

\* lines 305-333: rels_from_template is None
ParseUnknownRels(templates, e_ids, t_ids, ok) ==
    LET first == LoopCalls(PrimaryAttempts(templates), 308, e_ids, t_ids, None, ok)
    IN  IF LastOut(first) # <<>> THEN first
        ELSE IF use_alt_templates
             THEN first \o LoopCalls(AlternativeAttempts(templates), 323, e_ids, t_ids, None, ok)
             ELSE first

\* lines 289-304: rels_from_template is given
ParseKnownRels(templates, e_ids, t_ids, rels, rel_dirs, ok) ==
    LET query_template == SelectByRelDirs(templates, rel_dirs)
    IN  IF query_template # None
        THEN << BinderCall(296, query_template[1].num, query_template[1].entities_and_types_select,
                           e_ids, t_ids, rels, ok) >>
        ELSE <<>>

\* The whole of sparql_template_parser: the binder calls it makes; its return
\* value is the output of the last call, or the empty list when it makes none.
sparql_template_parser(e_ids, t_ids, rels, rel_dirs, ok) ==
    LET templates == EligibleTemplates(template_nums, e_ids, t_ids)
    IN  IF templates = <<>> THEN <<>>
        ELSE IF rels # None THEN ParseKnownRels(templates, e_ids, t_ids, rels, rel_dirs, ok)
        ELSE ParseUnknownRels(templates, e_ids, t_ids, ok)

\* the invocation of sparql_template_parser itself, with what it was given
ParserCall(line, e_ids, t_ids, rels) ==
    [op |-> "sparql_template_parser", line |-> line, template_nums |-> template_nums,
     counts |-> <<Len(e_ids), Len(t_ids)>>, rels |-> rels]

\* The <<key, slot-selection spec>> pairs a call can hand to the binder
BinderPairs(e_ids, t_ids) ==
    LET templates == EligibleTemplates(template_nums, e_ids, t_ids)
        range(s) == { s[i] : i \in 1..Len(s) }
    IN  IF templates = <<>> THEN {}
        ELSE range(PrimaryAttempts(templates)) \cup range(AlternativeAttempts(templates))

----------------------------------------------------------------------------
(* get_entity_ids, lines 228-255 *)

\* entity_info.get("entity_ids", []): an entity_info is None when the key is
\* missing and Some(ids) otherwise
InfoEntityIds(entity_info) == IF entity_info = None THEN <<>> ELSE entity_info[1]

LinkerErrorCaught_Nothing(exception) == FALSE

\* lines 240-243: the except clause around the linker call
LinkerErrorCaught(exception) == exception = "JSONDecodeError"

\* `el` is the outcome of the linker call: el.raises names the exception it raises
\* ("" for none), el.payload is what it returns otherwise.
get_entity_ids(what_to_link, el) ==
    IF what_to_link = "entities"
    THEN LET el_output == IF el.raises # "" THEN <<>> ELSE el.payload
         IN  IF el_output = <<>> THEN <<>>
             ELSE LET infos == IF use_el_api_requester THEN el_output[1] ELSE el_output
                      ids   == [i \in 1..Len(infos) |-> InfoEntityIds(infos[i])]
                  IN  IF ~use_el_api_requester /\ ids # <<>> THEN ids[1] ELSE ids
    ELSE el.payload[1][1]

EntityInfos == {None} \cup { Some(SubSeq(IdPool, 1, n)) : n \in 0..MaxIds }
InfoLists == SeqsUpTo(EntityInfos, MaxInfos)

\* What the linker can answer: a batch of one info list behind the API
\* requester, the info list itself otherwise, or nothing at all.
LinkerOutcomes ==
    { [raises |-> "JSONDecodeError", payload |-> <<>>] } \cup
    { [raises |-> "", payload |-> p] :
        p \in IF use_el_api_requester THEN {<<>>} \cup { <<l>> : l \in InfoLists }
              ELSE InfoLists }

LinkerCall(line, entities, entity_types, el) ==
    [op |-> "linker_entities", line |-> line, entities |-> LowerAll(entities),
     entity_types |-> entity_types, decode_error |-> (el.raises = "JSONDecodeError")]

----------------------------------------------------------------------------
(* find_answer_wikihow, lines 369-381 *)

RECURSIVE LStrip(_)
LStrip(s) == IF s # <<>> /\ Head(s) = " " THEN LStrip(Tail(s)) ELSE s

RECURSIVE RStrip(_)
RStrip(s) == IF s # <<>> /\ s[Len(s)] = " " THEN RStrip(SubSeq(s, 1, Len(s) - 1)) ELSE s

\* str.strip()
Strip(s) == RStrip(LStrip(s))

\* `search_results` is the list of hits, `tags` the texts of the <p> tags of the
\* top hit's page.
find_answer_wikihow(search_results, page_tags) ==
    LET tags == IF search_results # <<>> THEN page_tags ELSE <<>>
    IN  IF tags # <<>> THEN Strip(tags[1]) \o <<"@", "e", "n">> ELSE NotFound

ParagraphTexts == { <<>>, <<" ", "d", "o", " ">>, <<"g", "o">> }
WikihowOutcomes ==
    { [search_results |-> <<>>, page_tags |-> <<>>] } \cup
    { [search_results |-> <<"article">>, page_tags |-> t] :
        t \in {<<>>} \cup { <<x>> : x \in ParagraphTexts } \cup { <<<<"g", "o">>, <<"d", "o">>>> } }

----------------------------------------------------------------------------
(* find_candidate_answers, lines 121-226 *)

\* line 177 / 204: any([elem[0] != "misc" for elem in types])
NonMisc(types) == \E i \in 1..Len(types) : types[i][1] # "misc"

Last(s) == s[Len(s)]

\* zip(a, b)
Zip(a, b) ==
    LET n == IF Len(a) < Len(b) THEN Len(a) ELSE Len(b)
    IN  [i \in 1..n |-> <<a[i], b[i]>>]

\* lines 201-211: the entities and type lists handed to the linker in the NER path
NerFilter(entities, types) ==
    IF Len(entities) > 1
    THEN LET kept == SelectSeq(Zip(entities, types), LAMBDA p : NonMisc(p[2]))
         IN  IF kept # <<>>
             THEN [entities |-> <<Last(kept)[1]>>, types |-> <<Last(kept)[2]>>]
             ELSE [entities |-> <<>>, types |-> <<>>]
    ELSE [entities |-> entities, types |-> types]

NerFallbackTaken_NoNerCheck == candidate_outputs = <<>>

NerFallbackTaken_IgnoresCandidates == entities_from_ner # <<>>

\* line 197
NerFallbackTaken == candidate_outputs = <<>> /\ entities_from_ner # <<>>

\* the tuple the template matcher returns (line 148-158); the fields that are only
\* forwarded (entity_types, answer_types, template_found) are left out
NoMatch(answer) ==
    [entities_from_template |-> <<>>, types_from_template |-> <<>>,
     rels_from_template |-> <<>>, rel_dirs_from_template |-> <<>>,
     query_type_template |-> 0, template_answer |-> answer]

TemplateAnswers == {"", "answer"}
Mentions ==
    { m \in [entities_from_template : {<<>>, <<"Justin">>}, types_from_template : {<<>>, <<"city">>}] :
        m.entities_from_template # <<>> \/ m.types_from_template # <<>> }

\* Fields the code never reads for a given outcome are kept at one value.
MatcherOutputs ==
    { NoMatch(a) : a \in TemplateAnswers } \cup
    { [NoMatch(a) EXCEPT !.entities_from_template = m.entities_from_template,
                         !.types_from_template = m.types_from_template,
                         !.rels_from_template = r] :
        a \in TemplateAnswers, m \in Mentions, r \in { <<>>, << <<"PHOW">> >> } } \cup
    { [entities_from_template |-> m.entities_from_template,
       types_from_template |-> m.types_from_template,
       rels_from_template |-> << <<"P19">> >>, rel_dirs_from_template |-> d,
       query_type_template |-> q, template_answer |-> a] :
        a \in TemplateAnswers, m \in Mentions, d \in { <<"forw">>, <<"backw">> }, q \in TemplateNums }

\* the locals of find_candidate_answers are gone when it returns or raises
FramePopped ==
    /\ entities_from_ner' = <<>>
    /\ types_from_ner' = <<>>
    /\ entity_ids' = <<>>
    /\ candidate_outputs' = <<>>

\* The wiki-parser flag is read by find_top_rels only and the other three flags by
\* find_candidate_answers only: each is varied with the others at their defaults
\* (lines 56-59).
IndependentFlags ==
    \/ ~use_wp_api_requester
    \/ (~syntax_structure_known /\ ~use_el_api_requester /\ use_alt_templates)

Init ==
    /\ syntax_structure_known \in BOOLEAN
    /\ use_el_api_requester \in BOOLEAN
    /\ use_alt_templates \in BOOLEAN
    /\ use_wp_api_requester \in BOOLEAN
    /\ IndependentFlags
    /\ rank_list_0 = RankList0
    /\ rank_list_1 = RankList1
    /\ template_queries = TemplateLibrary
    /\ template_nums = <<>>
    /\ op = "none"
    /\ pc = "idle"
    /\ template_types = <<>>
    /\ arg_entities = <<>>
    /\ arg_types = <<>>
    /\ entities_from_ner = <<>>
    /\ types_from_ner = <<>>
    /\ tm = NoMatch("")
    /\ entity_ids = <<>>
    /\ candidate_outputs = <<>>
    /\ tpl_outputs = <<>>
    /\ result = <<>>
    /\ calls = <<>>
    /\ triplet_info = <<>>
    /\ rel_entity_ids = <<>>
    /\ ex_rels = <<>>
    /\ rels_with_scores = <<>>
    /\ states_batch = <<>>
    /\ skill_names = <<>>

\* the call without the assignment of line 131
Call_KeepsTemplateNums ==
    /\ pc = "idle"
    /\ \E n \in 0..MaxNer, tt \in SeqsUpTo(TemplateNums, MaxTemplateTypes) :
         \E types \in [1..n -> TypeLists] :
            /\ arg_entities' = SubSeq(NerPool, 1, n)
            /\ arg_types' = types
            /\ entities_from_ner' = SubSeq(NerPool, 1, n)
            /\ types_from_ner' = types
            /\ template_types' = tt
    /\ op' = "find_candidate_answers"
    /\ pc' = "match"
    /\ calls' = <<>>
    /\ UNCHANGED <<selVars, cfgVars, instVars, template_nums, tm, entity_ids, candidate_outputs,
                   tpl_outputs, result, relVars>>

\* lines 121-131: the call, with its arguments
Call ==
    /\ pc = "idle"
    /\ \E n \in 0..MaxNer, tt \in SeqsUpTo(TemplateNums, MaxTemplateTypes) :
         \E types \in [1..n -> TypeLists] :
            /\ arg_entities' = SubSeq(NerPool, 1, n)
            /\ arg_types' = types
            /\ entities_from_ner' = SubSeq(NerPool, 1, n)
            /\ types_from_ner' = types
            /\ template_types' = tt
            /\ template_nums' = tt
    /\ op' = "find_candidate_answers"
    /\ pc' = "match"
    /\ calls' = <<>>
    /\ UNCHANGED <<selVars, cfgVars, instVars, tm, entity_ids, candidate_outputs, tpl_outputs, result, relVars>>

\* an uncaught exception leaves find_candidate_answers
Raised(exception, line) ==
    /\ pc' = "raised"
    /\ result' = <<exception, line>>
    /\ FramePopped

\* lines 148-169: the template matcher answers, and the branch is taken;
\* rels_from_template[0] raises IndexError when the matcher gave no relation
Match ==
    /\ pc = "match"
    /\ \E out \in MatcherOutputs :
         /\ tm' = out
         /\ template_nums' = <<out.query_type_template>>
         /\ IF out.entities_from_template # <<>> \/ out.types_from_template # <<>>
            THEN IF out.rels_from_template = <<>>
                 THEN Raised("IndexError", 169)
                 ELSE /\ pc' = IF out.rels_from_template[1][1] = "PHOW" THEN "howto"
                               ELSE "link_template"
                      /\ UNCHANGED <<entities_from_ner, types_from_ner, entity_ids,
                                     candidate_outputs, result>>
            ELSE /\ pc' = "line_197"
                 /\ UNCHANGED <<entities_from_ner, types_from_ner, entity_ids,
                                candidate_outputs, result>>
    /\ UNCHANGED <<selVars, cfgVars, instVars, op, argVars, tpl_outputs, calls, relVars>>

\* lines 170-171: the how-to answer; entities_from_template[0] raises IndexError
\* when the matcher gave type mentions only
HowTo ==
    /\ pc = "howto"
    /\ IF tm.entities_from_template = <<>>
       THEN /\ Raised("IndexError", 170)
            /\ UNCHANGED calls
       ELSE \E w \in WikihowOutcomes :
            /\ candidate_outputs' =
                 << <<"PHOW", find_answer_wikihow(w.search_results, w.page_tags), 1>> >>
            /\ calls' = Append(calls, [op |-> "wikihow_search", line |-> 371,
                                       sentence |-> tm.entities_from_template[1]])
            /\ pc' = "line_197"
            /\ UNCHANGED <<entities_from_ner, types_from_ner, entity_ids, result>>
    /\ UNCHANGED <<selVars, cfgVars, instVars, op, template_nums, argVars, tm, tpl_outputs, relVars>>

\* lines 174-179: the type lists kept for the linker in the template path, None when
\* filtered_types[-1] raises IndexError
TemplateTypesFilter(types) ==
    IF Len(types) > 1
    THEN LET filtered_types == SelectSeq(types, NonMisc)
         IN  IF filtered_types = <<>> THEN None ELSE Some(<<Last(filtered_types)>>)
    ELSE Some(types)

\* lines 174-182: entity linking over the template's mentions
LinkTemplate ==
    /\ pc = "link_template"
    /\ LET kept == TemplateTypesFilter(types_from_ner)
       IN  IF kept = None
           THEN /\ Raised("IndexError", 179)
                /\ UNCHANGED calls
           ELSE \E el \in LinkerOutcomes :
                /\ calls' = Append(calls, LinkerCall(180, tm.entities_from_template, kept[1], el))
                /\ IF el.raises # "" /\ ~LinkerErrorCaught(el.raises)
                   THEN Raised(el.raises, 241)
                   ELSE /\ types_from_ner' = kept[1]
                        /\ entity_ids' = get_entity_ids("entities", el)
                        /\ pc' = "parse_template"
                        /\ UNCHANGED <<entities_from_ner, candidate_outputs, result>>
    /\ UNCHANGED <<selVars, cfgVars, instVars, op, template_nums, argVars, tm, tpl_outputs, relVars>>

\* lines 183-195: template parsing with the matcher's relations and directions
ParseTemplate ==
    /\ pc = "parse_template"
    /\ \E ok \in SUBSET BinderPairs(entity_ids, <<>>) :
         LET log == sparql_template_parser(entity_ids, <<>>, Some(tm.rels_from_template),
                                           tm.rel_dirs_from_template, ok)
         IN  /\ calls' = Append(calls, ParserCall(193, entity_ids, <<>>, Some(tm.rels_from_template)))
                         \o log
             /\ candidate_outputs' = LastOut(log)
    /\ pc' = "line_197"
    /\ UNCHANGED <<selVars, cfgVars, instVars, op, template_nums, argVars, entities_from_ner, types_from_ner,
                   tm, entity_ids, tpl_outputs, result, relVars>>

\* lines 197-224: the NER fallback is entered; entity linking over the NER entities
LinkNer ==
    /\ pc = "line_197"
    /\ NerFallbackTaken
    /\ tpl_outputs' = candidate_outputs
    /\ LET kept == NerFilter(entities_from_ner, types_from_ner)
       IN  \E el \in LinkerOutcomes :
            LET ids == get_entity_ids("entities", el)
            IN  /\ calls' = Append(calls, LinkerCall(213, kept.entities, kept.types, el))
                /\ IF el.raises # "" /\ ~LinkerErrorCaught(el.raises)
                   THEN /\ Raised(el.raises, 241)
                        /\ UNCHANGED template_nums
                   ELSE /\ entities_from_ner' = kept.entities
                        /\ types_from_ner' = kept.types
                        /\ entity_ids' = IF ~syntax_structure_known
                                         THEN SubSeq(ids, 1, IF Len(ids) < 3 THEN Len(ids) ELSE 3)
                                         ELSE ids
                        /\ template_nums' = template_types
                        /\ pc' = "parse_ner"
                        /\ UNCHANGED <<candidate_outputs, result>>
    /\ UNCHANGED <<selVars, cfgVars, instVars, op, argVars, tm, relVars>>

\* lines 225-226: template parsing without known relations, and the return
ParseNer ==
    /\ pc = "parse_ner"
    /\ \E ok \in SUBSET BinderPairs(entity_ids, <<>>) :
         LET log == sparql_template_parser(entity_ids, <<>>, None, None, ok)
         IN  /\ calls' = Append(calls, ParserCall(225, entity_ids, <<>>, None)) \o log
             /\ result' = <<LastOut(log), tm.template_answer>>
    /\ pc' = "done"
    /\ FramePopped
    /\ UNCHANGED <<selVars, cfgVars, instVars, op, template_nums, argVars, tm, tpl_outputs, relVars>>

\* lines 197 and 226: the NER fallback is not entered, and the call returns
Return ==
    /\ pc = "line_197"
    /\ ~NerFallbackTaken
    /\ tpl_outputs' = candidate_outputs
    /\ result' = <<candidate_outputs, tm.template_answer>>
    /\ pc' = "done"
    /\ FramePopped
    /\ UNCHANGED <<selVars, cfgVars, instVars, op, template_nums, argVars, tm, calls, relVars>>

----------------------------------------------------------------------------
(* find_top_rels, lines 339-367 *)

\* relation strings as the wiki parser gives them
RelStrings ==
    { <<"w", "/", "P", "1">>, <<"v", "/", "P", "1">>, <<"P", "2">>,
      <<"w", "/", "Q", "1">>, <<"P", "/", "x">>, <<"w", "/">> }

\* rel.split("/")[-1]
RECURSIVE LastSegment(_)
LastSegment(s) ==
    IF \E i \in 1..Len(s) : s[i] = "/"
    THEN LastSegment(SubSeq(s, (CHOOSE i \in 1..Len(s) : s[i] = "/") + 1, Len(s)))
    ELSE s

\* rel.startswith("P")
StartsWithP(s) == s # <<>> /\ s[1] = "P"

Range(s) == { s[i] : i \in 1..Len(s) }

\* list(set(xs)): the elements once each, in an order the hashing decides
ListsOfSet(S) ==
    { l \in [1..Cardinality(S) -> S] : \A i, j \in 1..Cardinality(S) : l[i] = l[j] => i = j }

\* lines 343-349: the (entity, direction, rel_type) queries, as a set
QueriesSet(e_ids, direction, rel_type) ==
    LET leave(entity_id) ==
            SubSeq(entity_id, 1, IF Len(entity_id) < entities_to_leave
                                 THEN Len(entity_id) ELSE entities_to_leave)
    IN  UNION { { <<entity, direction, rel_type>> : entity \in Range(leave(e_ids[k])) } :
                k \in 1..Len(e_ids) }

WikiParserOutcomes ==
    { [raises |-> "JSONDecodeError", payload |-> <<>>] } \cup
    { [raises |-> "", payload |-> p] :
        p \in IF use_wp_api_requester
              THEN SeqsUpTo({ <<r>> : r \in RelStrings }, MaxWikiRels)
              ELSE SeqsUpTo(RelStrings, MaxWikiRels) }

\* lines 351-354: the except clause around the wiki-parser call
WikiErrorCaught(exception) == exception = "JSONDecodeError"

\* lines 350-356: the relations the wiki parser gave, before deduplication
WikiRels(wp) ==
    LET got == IF wp.raises # "" THEN <<>> ELSE wp.payload
    IN  IF use_wp_api_requester /\ got # <<>>
        THEN [i \in 1..Len(got) |-> got[i][1]]
        ELSE got

\* line 358
LastSegments(rels) == [i \in 1..Len(rels) |-> LastSegment(rels[i])]

\* line 364
PrefixFilter(rels) == SelectSeq(rels, StartsWithP)

TopRels_Untruncated(scored) == scored

\* line 367: rels_with_scores[: self.rels_to_leave]
TopRels(scored) == SubSeq(scored, 1, IF Len(scored) < rels_to_leave THEN Len(scored) ELSE rels_to_leave)

\* what the ranker can answer for `rels`: any number of scored relations
RankerOutputs(rels) ==
    { [i \in 1..n |-> <<rels[((i - 1) % Len(rels)) + 1], n - i>>] : n \in 0..MaxRanked }

RelEntityIds ==
    { <<>>, << <<"Q1">> >>, << <<"Q1", "Q2">>, <<"Q2">> >>, << IdPool >> }

\* lines 339-341 and 359-362: the call, and the static sources
FindTopRels ==
    /\ pc = "idle"
    /\ op' = "find_top_rels"
    /\ \E source \in {"wiki", "rank_list_1", "rank_list_2", "other"}, e_ids \in RelEntityIds :
         /\ triplet_info' = <<"forw", source, "direct">>
         /\ rel_entity_ids' = e_ids
         /\ ex_rels' = CASE source = "rank_list_1" -> rank_list_0
                         [] source = "rank_list_2" -> rank_list_1
                         [] OTHER -> <<>>
         /\ pc' = IF source = "wiki" THEN "wiki_parser" ELSE "rank_rels"
    /\ calls' = <<>>
    /\ rels_with_scores' = <<>>
    /\ UNCHANGED <<selVars, cfgVars, instVars, template_nums, argVars, fcaVars>>

\* lines 342-358: the wiki parser is asked for the relations of the entities
WikiParser ==
    /\ pc = "wiki_parser"
    /\ \E wp \in WikiParserOutcomes :
         /\ calls' = Append(calls,
               [op |-> "wiki_parser", line |-> 352,
                queries |-> QueriesSet(rel_entity_ids, triplet_info[1], triplet_info[3]),
                decode_error |-> (wp.raises = "JSONDecodeError")])
         /\ IF wp.raises # "" /\ ~WikiErrorCaught(wp.raises)
            THEN /\ pc' = "raised"
                 /\ result' = <<wp.raises, 352>>
                 /\ UNCHANGED ex_rels
            ELSE /\ \E l \in ListsOfSet(Range(WikiRels(wp))) : ex_rels' = LastSegments(l)
                 /\ pc' = "rank_rels"
                 /\ UNCHANGED result
    /\ UNCHANGED <<selVars, cfgVars, instVars, template_nums, op, argVars, tm, entities_from_ner,
                   types_from_ner, entity_ids, candidate_outputs, tpl_outputs, triplet_info,
                   rel_entity_ids, rels_with_scores>>

\* lines 363-367: prefix filter, ranking, truncation, and the return
RankRels ==
    /\ pc = "rank_rels"
    /\ LET kept == PrefixFilter(ex_rels)
       IN  IF kept # <<>>
           THEN \E scored \in RankerOutputs(kept) :
                 /\ rels_with_scores' = scored
                 /\ calls' = Append(calls, [op |-> "rel_ranker", line |-> 366, rels |-> kept])
                 /\ result' = TopRels(scored)
           ELSE /\ rels_with_scores' = <<>>
                /\ result' = TopRels(<<>>)
                /\ UNCHANGED calls
    /\ ex_rels' = PrefixFilter(ex_rels)
    /\ pc' = "done"
    /\ UNCHANGED <<selVars, cfgVars, instVars, template_nums, op, argVars, tm, entities_from_ner,
                   types_from_ner, entity_ids, candidate_outputs, tpl_outputs,
                   triplet_info, rel_entity_ids>>

\* the request is over (returned or raised); the instance waits for the next one
Finish ==
    /\ pc \in {"done", "raised"}
    /\ op' = "none"
    /\ pc' = "idle"
    /\ tpl_outputs' = <<>>
    /\ result' = <<>>
    /\ calls' = <<>>
    /\ template_types' = <<>>
    /\ arg_entities' = <<>>
    /\ arg_types' = <<>>
    /\ triplet_info' = <<>>
    /\ rel_entity_ids' = <<>>
    /\ ex_rels' = <<>>
    /\ rels_with_scores' = <<>>
    /\ states_batch' = <<>>
    /\ skill_names' = <<>>
    /\ tm' = NoMatch("")
    /\ UNCHANGED <<cfgVars, instVars, template_nums, entities_from_ner, types_from_ner,
                   entity_ids, candidate_outputs>>

Next ==
    \/ Call
    \/ Match
    \/ HowTo
    \/ LinkTemplate
    \/ ParseTemplate
    \/ LinkNer
    \/ ParseNer
    \/ Return
    \/ FindTopRels
    \/ WikiParser
    \/ RankRels
    \/ Finish

Spec == Init /\ [][Next]_vars

----------------------------------------------------------------------------
(* sparql_template_parser called on its own, lines 257-337: self.template_nums is
   whatever the instance holds, the arguments are the caller's *)

\* every <<key, slot-selection spec>> pair the knowledge base may answer: the
\* primaries, the alternatives any eligible template declares, and those
\* alternatives under their own slot-selection spec
AnswerablePairs(e_ids, t_ids) ==
    LET templates == EligibleTemplates(template_nums, e_ids, t_ids)
        declared == UNION { Range(templates[i].alternative_templates) : i \in 1..Len(templates) }
    IN  Range(PrimaryAttempts(templates)) \cup declared
        \cup { <<a[1], TemplateByKey(a[1]).entities_and_types_select>> : a \in declared }

ParserInit ==
    /\ syntax_structure_known \in BOOLEAN
    /\ use_alt_templates \in BOOLEAN
    /\ use_el_api_requester = FALSE
    /\ use_wp_api_requester = FALSE
    /\ rank_list_0 = RankList0
    /\ rank_list_1 = RankList1
    /\ template_queries = TemplateLibrary
    /\ template_nums \in SeqsUpTo(TemplateNums, MaxTemplateNums)
    /\ op = "none"
    /\ pc = "idle"
    /\ template_types = <<>>
    /\ arg_entities = <<>>
    /\ arg_types = <<>>
    /\ entities_from_ner = <<>>
    /\ types_from_ner = <<>>
    /\ tm = NoMatch("")
    /\ entity_ids = <<>>
    /\ candidate_outputs = <<>>
    /\ tpl_outputs = <<>>
    /\ result = <<>>
    /\ calls = <<>>
    /\ triplet_info = <<>>
    /\ rel_entity_ids = <<>>
    /\ ex_rels = <<>>
    /\ rels_with_scores = <<>>
    /\ states_batch = <<>>
    /\ skill_names = <<>>

\* lines 257-337: one call of sparql_template_parser to its return
CallParser ==
    /\ pc = "idle"
    /\ \E n \in 0..MaxEntityIds, m \in 0..MaxTypeIds,
          known \in { <<None, None>>, <<Some(<< <<"P19">> >>), <<"forw">> >>,
                      <<Some(<< <<"P19">> >>), <<"backw">> >> } :
         LET e_ids == [i \in 1..n |-> <<IdPool[1]>>]
             t_ids == [i \in 1..m |-> <<IdPool[2]>>]
         IN  \E ok \in SUBSET AnswerablePairs(e_ids, t_ids) :
                LET log == sparql_template_parser(e_ids, t_ids, known[1], known[2], ok)
                IN  /\ calls' = <<ParserCall(257, e_ids, t_ids, known[1])>> \o log
                    /\ result' = LastOut(log)
    /\ op' = "sparql_template_parser"
    /\ pc' = "done"
    /\ UNCHANGED <<selVars, cfgVars, instVars, template_nums, argVars, tm, entities_from_ner,
                   types_from_ner, entity_ids, candidate_outputs, tpl_outputs, relVars>>

ParserNext ==
    \/ CallParser
    \/ Finish

ParserSpec == ParserInit /\ [][ParserNext]_vars

----------------------------------------------------------------------------
(* RuleBasedSelector.__call__ (skill_selectors/rule_based_selector/server.py),
   lines 43-146.  A dialog is the record of what the rules read of it. *)

\* most dialogs in one batch
MaxBatch == 2
\* orders in which list(set(...)) can enumerate one set
MaxSetOrders == 2

sensitive_topics ==
    {"Politics", "Celebrities", "Religion", "Sex_Profanity", "Sports", "News", "Psychology"}
sensitive_dialogacts == {"Opinion_RequestIntent", "General_ChatIntent"}
movie_cobot_dialogacts ==
    {"Entertainment_Movies", "Sports", "Entertainment_Music", "Entertainment_General", "Phatic"}
movie_cobot_topics ==
    {"Movies_TV", "Celebrities", "Art_Event", "Entertainment", "Fashion", "Games", "Music", "Sports"}
books_cobot_dialogacts == {"Entertainment_General", "Entertainment_Books"}
books_cobot_topics == {"Entertainment", "Literature"}
\* intents that line 55 leaves out of intent_detected
IgnoredIntents ==
    {"opinion_request", "yes", "no", "tell_me_more", "doing_well", "weather_forecast_intent"}

\* hypotheses of the previous user utterance: hyp["skill_name"],
\* hyp.get("can_continue") and hyp.get("weather_forecast_interaction_city_slot_requested")
WeatherHyp ==
    [skill_name |-> "weather_skill", can_continue |-> "CAN_CONTINUE", city_slot_requested |-> TRUE]
CobotqaHyp ==
    [skill_name |-> "cobotqa", can_continue |-> "MUST_CONTINUE", city_slot_requested |-> FALSE]

\* a dialog whose last utterance is a regular one
RegularDialog ==
    [new_persona |-> FALSE, question_mark |-> FALSE, detected_intents |-> {},
     cobot_topics |-> {}, dialogact_intents |-> <<>>, dialogact_topics |-> {},
     restricted_topics |-> FALSE, n_utterances |-> 3, hypotheses |-> <<>>,
     active_skill |-> "program_y", asr_confidence |-> "high"]

\* what lines 57-62 read: cobot topics, dialog-act intents, "?" in the reply
SensitivityCases ==
    { <<{}, <<>>, FALSE>>, <<{"Politics"}, <<"Opinion_RequestIntent">>, TRUE>>,
      <<{"Politics"}, <<"Opinion_RequestIntent">>, FALSE>>,
      <<{}, <<"Opinion_RequestIntent">>, TRUE>> }

\* the fields that choose the branch of lines 95-105, on a regular dialog
BranchDialogs ==
    { [RegularDialog EXCEPT !.new_persona = np, !.detected_intents = di,
                            !.cobot_topics = sc[1], !.dialogact_intents = sc[2],
                            !.question_mark = sc[3],
                            !.restricted_topics = rt, !.asr_confidence = asr] :
        np \in BOOLEAN, di \in { {}, {"exit"}, {"yes"} }, sc \in SensitivityCases,
        rt \in BOOLEAN, asr \in {"high", "very_low"} }

\* what lines 80-82 read: cobot topics and dialog-act topics
ThemeCases == { <<{}, {}>>, <<{"Music"}, {}>>, <<{}, {"Entertainment_Books"}>> }

\* what lines 84-93 and 113-135 read: the number of utterances, the hypotheses of
\* utterances[-3] (there from three utterances on) and the bot's active skill
HistoryCases ==
    { <<1, <<>>, "program_y">>, <<3, <<>>, "program_y">>, <<3, <<CobotqaHyp>>, "program_y">>,
      <<3, <<WeatherHyp>>, "program_y">>, <<3, <<WeatherHyp>>, "weather_skill">>,
      <<8, <<>>, "program_y">>, <<8, <<CobotqaHyp>>, "program_y">> }

\* the fields the regular branch reads (lines 106-138)
ThematicDialogs ==
    { [RegularDialog EXCEPT !.detected_intents = di, !.cobot_topics = th[1],
                            !.dialogact_topics = th[2], !.n_utterances = hc[1],
                            !.hypotheses = hc[2], !.active_skill = hc[3],
                            !.asr_confidence = asr] :
        di \in { {}, {"weather_forecast_intent"} }, th \in ThemeCases, hc \in HistoryCases,
        asr \in {"high", "very_low"} }

Dialogs == BranchDialogs \cup ThematicDialogs

\* lines 53-56
intent_detected(dialog) == \E k \in dialog.detected_intents : k \notin IgnoredIntents
\* line 58
sensitive_topics_detected(dialog) == \E t \in dialog.cobot_topics : t \in sensitive_topics
\* lines 61-62
sensitive_dialogacts_detected(dialog) ==
    \E i \in 1..Len(dialog.dialogact_intents) :
        dialog.dialogact_intents[i] \in sensitive_dialogacts /\ dialog.question_mark
\* line 80: the set is used for its truth value
about_movies(dialog) ==
    ((movie_cobot_dialogacts \cap dialog.dialogact_topics)
        \cup (movie_cobot_topics \cap dialog.cobot_topics)) # {}
\* line 81
about_music(dialog) ==
    "Entertainment_Music" \in dialog.dialogact_topics \/ "Music" \in dialog.cobot_topics
\* line 82
about_books(dialog) ==
    ((books_cobot_dialogacts \cap dialog.dialogact_topics)
        \cup (books_cobot_topics \cap dialog.cobot_topics)) # {}
\* line 84
prev_user_uttr_hyp(dialog) == IF dialog.n_utterances >= 3 THEN dialog.hypotheses ELSE <<>>
\* lines 87-89
weather_city_slot_requested(dialog) ==
    \E i \in 1..Len(prev_user_uttr_hyp(dialog)) :
        /\ prev_user_uttr_hyp(dialog)[i].skill_name = "weather_skill"
        /\ prev_user_uttr_hyp(dialog)[i].city_slot_requested
\* lines 91-93; prev_bot_uttr is {} with fewer than two utterances (line 85)
about_weather(dialog) ==
    \/ "weather_forecast_intent" \in dialog.detected_intents
    \/ /\ dialog.n_utterances >= 2
       /\ dialog.active_skill = "weather_skill"
       /\ weather_city_slot_requested(dialog)

\* lines 130-133: the skills of the hypotheses that can continue, in order
ContinuingSkills(hyps) ==
    LET kept == SelectSeq(hyps, LAMBDA h : h.can_continue \in {"CAN_CONTINUE", "MUST_CONTINUE"})
    IN  [i \in 1..Len(kept) |-> kept[i].skill_name]

\* lines 106-138: the regular branch
RegularSkills(dialog) ==
    LET appended ==
            <<"program_y", "cobotqa", "alice", "christmas_new_year_skill", "personal_info_skill">>
            \o (IF dialog.n_utterances > 7 THEN <<"tfidf_retrieval", "convert_reddit">> ELSE <<>>)
            \o (IF about_movies(dialog) THEN <<"movie_skill">> ELSE <<>>)
            \o (IF about_music(dialog) /\ dialog.n_utterances > 2
                THEN <<"music_tfidf_retrieval">> ELSE <<>>)
            \o (IF about_books(dialog) THEN <<"book_skill">> ELSE <<>>)
            \o (IF about_weather(dialog) THEN <<"weather_skill">> ELSE <<>>)
            \o ContinuingSkills(prev_user_uttr_hyp(dialog))
    IN  IF dialog.n_utterances > 1 /\ dialog.asr_confidence = "very_low"
        THEN <<"misheard_asr">>
        ELSE appended

\* lines 95-141: skills_for_uttr as appended to, before line 143
AppendedSkills(dialog) ==
    (IF dialog.new_persona THEN <<"personality_catcher">>
     ELSE IF intent_detected(dialog) THEN <<"intent_responder">>
     ELSE IF dialog.restricted_topics
             \/ (sensitive_topics_detected(dialog) /\ sensitive_dialogacts_detected(dialog))
          THEN <<"program_y_dangerous", "cobotqa">>
     ELSE RegularSkills(dialog))
    \o <<"dummy_skill">>

\* every skill name, in one fixed order
SkillOrder ==
    <<"alice", "book_skill", "christmas_new_year_skill", "cobotqa", "convert_reddit",
      "dummy_skill", "intent_responder", "misheard_asr", "movie_skill",
      "music_tfidf_retrieval", "personal_info_skill", "personality_catcher", "program_y",
      "program_y_dangerous", "tfidf_retrieval", "weather_skill">>

Reversed(s) == [i \in 1..Len(s) |-> s[Len(s) + 1 - i]]

Unique_KeepsRepeats(skills, order) == skills

\* line 143, list(set(skills_for_uttr)): every name once, in an order the set
\* decides; `order` picks one of the orders
Unique(skills, order) ==
    LET once == SelectSeq(SkillOrder, LAMBDA x : x \in Range(skills))
    IN  IF order = 1 THEN once ELSE Reversed(once)

\* lines 43-45: the call, with its batch
CallSelector ==
    /\ pc = "idle"
    /\ \E n \in 0..MaxBatch : \E batch \in [1..n -> Dialogs] : states_batch' = batch
    /\ skill_names' = <<>>
    /\ op' = "RuleBasedSelector"
    /\ pc' = "line_47"
    /\ UNCHANGED <<cfgVars, instVars, template_nums, argVars, fcaVars, calls, relVars>>

\* lines 47-144: one turn of the loop, for the next dialog of the batch
SelectSkills ==
    /\ op = "RuleBasedSelector" /\ pc = "line_47"
    /\ Len(skill_names) < Len(states_batch)
    /\ \E order \in 1..MaxSetOrders :
         skill_names' = Append(skill_names,
                               Unique(AppendedSkills(states_batch[Len(skill_names) + 1]), order))
    /\ UNCHANGED <<cfgVars, instVars, template_nums, op, pc, argVars, fcaVars, calls, relVars,
                   states_batch>>

\* line 146: the loop is over
ReturnSkills ==
    /\ op = "RuleBasedSelector" /\ pc = "line_47"
    /\ Len(skill_names) = Len(states_batch)
    /\ result' = skill_names
    /\ pc' = "done"
    /\ UNCHANGED <<cfgVars, instVars, template_nums, op, argVars, tm, entities_from_ner,
                   types_from_ner, entity_ids, candidate_outputs, tpl_outputs, calls, relVars,
                   selVars>>

SelectorNext ==
    \/ CallSelector
    \/ SelectSkills
    \/ ReturnSkills
    \/ Finish

\* RuleBasedSelector has no state of its own (line 37); the query generator is at rest
SelectorInit ==
    /\ Init
    /\ ~syntax_structure_known /\ ~use_wp_api_requester
    /\ ~use_el_api_requester /\ use_alt_templates

SelectorSpec == SelectorInit /\ [][SelectorNext]_vars

----------------------------------------------------------------------------
(* Properties *)

InRequest == op = "find_candidate_answers"
Returned  == InRequest /\ pc = "done"
Over      == InRequest /\ pc \in {"done", "raised"}

CallsOf(name)  == SelectSeq(calls, LAMBDA c : c.op = name)
CallsAt(lines) == SelectSeq(calls, LAMBDA c : c.line \in lines)

\* call sites of the NER fallback
NerSites == {213, 225, 308, 323}

NoMentions == tm.entities_from_template = <<>> /\ tm.types_from_template = <<>>
NerRan == CallsAt({213}) # <<>>

\* C1: when the template matcher reports no entity mentions, no type mentions and no
\* template answer, and entities_from_ner is empty, find_candidate_answers returns
\* an empty candidate list and an empty template answer, and it invokes neither the
\* entity linker nor the query binder.
C1_NoMatchNoNerReturnsEmpty ==
    (Over /\ NoMentions /\ tm.template_answer = "" /\ arg_entities = <<>>)
        => /\ pc = "done"
           /\ result = << <<>>, "" >>
           /\ calls = <<>>

C1_Witness ==
    Returned /\ NoMentions /\ tm.template_answer = "" /\ arg_entities = <<>>

\* C2: the NER fallback (linker call at line 213, then sparql_template_parser without
\* rels_from_template) runs if and only if the template path ended with an empty
\* candidate list and entities_from_ner is non-empty; its calls come after every call
\* of the template path; a non-empty candidate list of the template path is returned
\* unchanged, without the fallback.
C2_NerFallbackIffEmptyAndNer ==
    InRequest =>
        /\ pc = "done" => (NerRan <=> (tpl_outputs = <<>> /\ arg_entities # <<>>))
        /\ \A i, j \in 1..Len(calls) :
              (i < j /\ calls[i].line \in NerSites) => calls[j].line \in NerSites
        /\ (pc = "done" /\ NerRan) =>
              LET ner == CallsAt(NerSites)
              IN  /\ Len(ner) >= 2
                  /\ ner[1].op = "linker_entities"
                  /\ ner[2].op = "sparql_template_parser" /\ ner[2].rels = None
                  /\ \A k \in 3..Len(ner) : ner[k].op = "query_parser" /\ ner[k].rels = None
        /\ (pc = "done" /\ tpl_outputs # <<>>) =>
              (result[1] = tpl_outputs /\ CallsAt(NerSites) = <<>>)

C2_Witness ==
    Returned /\ NerRan /\ CallsAt({296}) # <<>> /\ result[1] # <<>>

\* C3: with a known relation-direction signature, sparql_template_parser invokes the
\* binder exactly once, for an eligible template whose rel_dirs equals the signature,
\* and returns its output, if such a template exists; otherwise it invokes the binder
\* zero times and returns the empty list.
C3_KnownRelDirsOneTemplate ==
    (InRequest /\ pc = "line_197" /\ CallsAt({193}) # <<>>) =>
        LET p == CallsAt({193})[1]
            binder == CallsOf("query_parser")
            eligible(t) ==
                /\ \E n \in Range(p.template_nums) :
                      IF syntax_structure_known THEN t.num = n ELSE t.template_num = n
                /\ syntax_structure_known \/ t.entities_and_types_num = p.counts
            withSignature == { t \in Range(template_queries) :
                                 eligible(t) /\ t.rel_dirs = tm.rel_dirs_from_template }
        IN  /\ p.rels # None
            /\ IF withSignature # {}
               THEN /\ Len(binder) = 1
                    /\ binder[1].line = 296
                    /\ TemplateByKey(binder[1].num) \in withSignature
                    /\ binder[1].select = TemplateByKey(binder[1].num).entities_and_types_select
                    /\ candidate_outputs = binder[1].out
               ELSE /\ binder = <<>>
                    /\ candidate_outputs = <<>>

C3_Witness ==
    /\ InRequest /\ pc = "line_197" /\ ~syntax_structure_known
    /\ CallsAt({193}) # <<>> /\ CallsAt({193})[1].counts = <<1, 0>>
    /\ tm.query_type_template = 1 /\ tm.rel_dirs_from_template = <<"backw">>
    /\ Len(CallsOf("query_parser")) = 1
    /\ candidate_outputs # <<>>

\* C4: without known relations, an alternative template is handed to the binder only
\* when use_alt_templates is set and the binder was invoked for every eligible primary
\* template and returned nothing each time; alternatives are tried in the order
\* templates[0] declares them, none is tried after the first non-empty result, and
\* that result is returned.
C4_AlternativesAfterPrimaries ==
    (Returned /\ CallsAt({323}) # <<>>) =>
        LET p == CallsAt({225})[1]
            primary == CallsAt({308})
            alt == CallsAt({323})
            eligible == SelectSeq(TemplatesForNums(p.template_nums),
                          LAMBDA t : syntax_structure_known \/ t.entities_and_types_num = p.counts)
            declared == eligible[1].alternative_templates
        IN  /\ use_alt_templates
            /\ Len(primary) = Len(eligible)
            /\ \A i \in 1..Len(primary) : primary[i].num = eligible[i].num /\ primary[i].out = <<>>
            /\ CallsAt({308, 323}) = primary \o alt
            /\ Len(alt) <= Len(declared)
            /\ \A i \in 1..Len(alt) : <<alt[i].num, alt[i].select>> = declared[i]
            /\ \A i \in 1..(Len(alt) - 1) : alt[i].out = <<>>
            /\ result[1] = alt[Len(alt)].out

C4_Witness ==
    /\ Returned
    /\ Len(CallsAt({308})) >= 2
    /\ Len(CallsAt({323})) = 2
    /\ result[1] # <<>>

IsHowTo ==
    /\ ~NoMentions
    /\ tm.rels_from_template # <<>>
    /\ tm.rels_from_template[1][1] = "PHOW"

\* what the first paragraph of the top hit can contribute as content
ExtractedTexts == { Strip(t) \o <<"@", "e", "n">> : t \in ParagraphTexts }

\* C5: for a how-to match (first matched relation "PHOW", with entity or type
\* mentions) find_candidate_answers returns exactly one candidate, tagged "PHOW",
\* whose content is extracted text or "Not Found" and never empty, and it invokes
\* neither the entity linker, nor the query binder, nor the NER fallback.
C5_HowToSingleCandidate ==
    (Over /\ IsHowTo) =>
        /\ pc = "done"
        /\ Len(result[1]) = 1
        /\ result[1][1][1] = "PHOW"
        /\ result[1][1][2] \in ExtractedTexts \cup {NotFound}
        /\ result[1][1][2] # <<>>
        /\ CallsOf("linker_entities") = <<>>
        /\ CallsOf("query_parser") = <<>>
        /\ CallsAt(NerSites) = <<>>

FindTopRelsReturned == op = "find_top_rels" /\ pc = "done"

\* C6: the list find_top_rels returns is never longer than rels_to_leave, whatever the
\* source, the entities and the ranker output, and it is empty, with no call of the
\* ranker, when no relation is left after the "P"-prefix filter.
C6_TopRelsBounded ==
    FindTopRelsReturned =>
        /\ Len(result) <= rels_to_leave
        /\ ex_rels = <<>> => (result = <<>> /\ CallsOf("rel_ranker") = <<>>)
        /\ \A i \in 1..Len(ex_rels) : StartsWithP(ex_rels[i])

C6_Witness ==
    /\ FindTopRelsReturned
    /\ Len(rels_with_scores) > rels_to_leave
    /\ Len(result) = rels_to_leave

C6_WitnessEmpty ==
    /\ FindTopRelsReturned
    /\ triplet_info[2] = "wiki"
    /\ CallsOf("wiki_parser")[1].decode_error = FALSE
    /\ ex_rels = <<>>

\* C7: find_candidate_answers never ends with an error, whatever the template
\* matcher, the NER input and the collaborators give.
C7_NeverRaises == InRequest => pc # "raised"

\* C8: a JSON decode failure of a collaborator is caught where the call is made.
\* After a failed linker call get_entity_ids has returned the empty list and template
\* parsing follows with no entity ids; after a failed wiki-parser call find_top_rels
\* goes on with no relation and returns the empty list without calling the ranker.
\* No call site is entered twice in one operation.
C8_DecodeFailureAbsorbed ==
    /\ pc = "raised" => result[1] # "JSONDecodeError"
    /\ \A i \in 1..Len(calls) :
         (calls[i].op = "linker_entities" /\ calls[i].decode_error) =>
            /\ pc \in {"parse_template", "parse_ner", "line_197", "done", "raised"}
            /\ (i = Len(calls)) => (pc \in {"parse_template", "parse_ner"} /\ entity_ids = <<>>)
            /\ (i < Len(calls)) =>
                  /\ calls[i + 1].op = "sparql_template_parser"
                  /\ calls[i + 1].counts = <<0, 0>>
    /\ \A i \in 1..Len(calls) :
         (calls[i].op = "wiki_parser" /\ calls[i].decode_error) =>
            /\ pc \in {"rank_rels", "done"}
            /\ ex_rels = <<>>
            /\ CallsOf("rel_ranker") = <<>>
            /\ pc = "done" => result = <<>>
    /\ \A i, j \in 1..Len(calls) :
         (calls[i].line = calls[j].line /\ calls[i].line \in {180, 213, 352, 366}) => i = j

C8_Witness ==
    /\ Returned
    /\ \E i \in 1..Len(calls) : calls[i].line = 213 /\ calls[i].decode_error
    /\ CallsOf("query_parser") # <<>>

C8_WitnessWiki ==
    /\ FindTopRelsReturned
    /\ CallsOf("wiki_parser") # <<>>
    /\ CallsOf("wiki_parser")[1].decode_error

\* the binder calls that belong to the parser call at position i of the log
BinderCallsOf(i) ==
    LET following == SubSeq(calls, i + 1, Len(calls))
        stop == IF \E k \in 1..Len(following) : following[k].op # "query_parser"
                THEN (CHOOSE k \in 1..Len(following) :
                        /\ following[k].op # "query_parser"
                        /\ \A m \in 1..(k - 1) : following[m].op = "query_parser") - 1
                ELSE Len(following)
    IN  SubSeq(following, 1, stop)

\* C9 as stated: when syntax_structure_known is false, every template handed to the
\* binder declares entities_and_types_num equal to the numbers of resolved entity and
\* type candidates.
C9_EveryBoundTemplateMatchesCounts ==
    (InRequest /\ ~syntax_structure_known) =>
        \A i \in 1..Len(calls) :
            calls[i].op = "query_parser" =>
                TemplateByKey(calls[i].num).entities_and_types_num = calls[i].counts

\* C9 amended: when syntax_structure_known is false, every primary template handed
\* to the binder (lines 296 and 308) declares entities_and_types_num equal to the
\* counts, and when no template of the requested numbers declares those counts the
\* binder is not invoked at all; alternative templates (line 323) are bound without
\* a count check.  When syntax_structure_known is true the counts are not checked:
\* without known relations the first template whose key is requested is bound.
C9_PrimaryTemplatesMatchCounts ==
    InRequest =>
        \A i \in 1..Len(calls) :
            calls[i].op = "sparql_template_parser" /\ pc \in {"line_197", "done"} =>
                LET p == calls[i]
                    bound == BinderCallsOf(i)
                    requested == { t \in Range(template_queries) :
                                     \E n \in Range(p.template_nums) :
                                        IF syntax_structure_known THEN t.num = n
                                        ELSE t.template_num = n }
                IN  IF ~syntax_structure_known
                    THEN /\ \A k \in 1..Len(bound) :
                              bound[k].line \in {296, 308} =>
                                 LET t == TemplateByKey(bound[k].num)
                                 IN  t \in requested /\ t.entities_and_types_num = p.counts
                         /\ (\A t \in requested : t.entities_and_types_num # p.counts)
                               => bound = <<>>
                    ELSE (requested # {} /\ p.rels = None) =>
                            /\ bound # <<>>
                            /\ TemplateByKey(bound[1].num) \in requested

C9_Witness ==
    /\ Returned /\ ~syntax_structure_known
    /\ CallsAt({308}) # <<>>
    /\ \E i \in 1..Len(calls) :
         /\ calls[i].line = 323
         /\ TemplateByKey(calls[i].num).entities_and_types_num # calls[i].counts

\* C10: in the NER fallback, when the caller supplied more than one NER entity, the
\* linker receives the last entity whose own type list has a non-"misc" type, with
\* that entity's own type list, or no entity when there is none; also when the
\* template path ran before.
C10_LastNonMiscEntityLinked ==
    (InRequest /\ Len(arg_entities) > 1 /\ NerRan) =>
        LET c == CallsAt({213})[1]
            own == { i \in 1..Len(arg_entities) : NonMisc(arg_types[i]) }
            last == CHOOSE i \in own : \A j \in own : j <= i
        IN  IF own # {}
            THEN c.entities = <<Lower(arg_entities[last])>> /\ c.entity_types = <<arg_types[last]>>
            ELSE c.entities = <<>>

\* C11: the template library and both static rank lists stay as load() left them
\* through every operation, and template_nums, the only instance state a request
\* writes, is read by sparql_template_parser only after the same request wrote it:
\* at line 193 it holds the matcher's template type (line 162), at line 225 the
\* template_types argument (line 221), and on entry the argument (line 131).
C11_LibraryFrozenTemplateNumsFresh ==
    /\ template_queries = TemplateLibrary
    /\ rank_list_0 = RankList0
    /\ rank_list_1 = RankList1
    /\ (InRequest /\ pc = "match") => template_nums = template_types
    /\ InRequest =>
          \A i \in 1..Len(calls) :
             calls[i].op = "sparql_template_parser" =>
                calls[i].template_nums = IF calls[i].line = 193
                                         THEN <<tm.query_type_template>>
                                         ELSE template_types

C11_Witness ==
    /\ Returned
    /\ CallsAt({193}) # <<>>
    /\ CallsAt({225}) # <<>>
    /\ CallsAt({193})[1].template_nums # CallsAt({225})[1].template_nums
    /\ template_nums = template_types

ParserReturned == op = "sparql_template_parser" /\ pc = "done"

\* position of a template in the library file
LibraryPosition(num) == CHOOSE j \in 1..Len(template_queries) : template_queries[j].num = num

\* the primary templates of a parser call, from what the call was given: for every
\* number of template_nums in turn, the library entries it selects in file order
ExpectedPrimaries(p) ==
    LET fits(n, t) == /\ IF syntax_structure_known THEN t.num = n ELSE t.template_num = n
                      /\ syntax_structure_known \/ t.entities_and_types_num = p.counts
        pairs == { <<a, b>> \in (1..Len(p.template_nums)) \X (1..Len(template_queries)) :
                      fits(p.template_nums[a], template_queries[b]) }
        before(x, y) == x[1] < y[1] \/ (x[1] = y[1] /\ x[2] < y[2])
        nth(k) == CHOOSE x \in pairs : Cardinality({ y \in pairs : before(y, x) }) = k - 1
    IN  [k \in 1..Cardinality(pairs) |-> template_queries[nth(k)[2]]]

\* what C12 and C13 say of a direct call without known relations
PrimariesFirstWins(p, prim, alt) ==
    LET expected == ExpectedPrimaries(p)
    IN  /\ Len(prim) <= Len(expected)
        /\ \A k \in 1..Len(prim) :
              /\ prim[k].num = expected[k].num
              /\ prim[k].select = expected[k].entities_and_types_select
        /\ \A k \in 1..(Len(prim) - 1) : prim[k].out = <<>>
        /\ (prim # <<>> /\ prim[Len(prim)].out # <<>>) =>
              (alt = <<>> /\ result = prim[Len(prim)].out)
        /\ (\A k \in 1..Len(prim) : prim[k].out = <<>>) => Len(prim) = Len(expected)

\* C12 as stated: without known relations the binder is invoked for the eligible
\* templates one at a time in library order, the first non-empty output is returned
\* as is, and no later template is handed to the binder.
C12_FirstNonEmptyInLibraryOrder ==
    (ParserReturned /\ calls[1].rels = None) =>
        LET prim == CallsAt({308})
        IN  /\ PrimariesFirstWins(calls[1], prim, CallsAt({323}))
            /\ \A k \in 1..(Len(prim) - 1) :
                  LibraryPosition(prim[k].num) < LibraryPosition(prim[k + 1].num)

\* C12 amended: without known relations the binder is invoked for the eligible
\* templates one at a time in the order of the list built at lines 269-284 (for
\* every number of template_nums in turn, the library entries it selects, in
\* library order; a number given twice gives its templates twice), the first
\* non-empty output is returned as is, and no later template is handed to the
\* binder.  With one requested number the order is library order.
C12_FirstNonEmptyInListOrder ==
    (ParserReturned /\ calls[1].rels = None) =>
        LET prim == CallsAt({308})
        IN  /\ PrimariesFirstWins(calls[1], prim, CallsAt({323}))
            /\ Len(calls[1].template_nums) = 1 =>
                  \A k \in 1..(Len(prim) - 1) :
                     LibraryPosition(prim[k].num) < LibraryPosition(prim[k + 1].num)

C12_Witness ==
    /\ ParserReturned /\ calls[1].rels = None
    /\ Len(calls[1].template_nums) = 2
    /\ Len(CallsAt({308})) >= 2
    /\ Len(CallsAt({308})) < Len(ExpectedPrimaries(calls[1]))
    /\ result # <<>>
    /\ LibraryPosition(CallsAt({308})[1].num) > LibraryPosition(CallsAt({308})[2].num)

\* a direct call without known relations in which several primary templates were
\* eligible and every one of them gave nothing
AllPrimariesEmpty ==
    /\ ParserReturned /\ calls[1].rels = None
    /\ Len(ExpectedPrimaries(calls[1])) >= 2
    /\ Len(CallsAt({308})) = Len(ExpectedPrimaries(calls[1]))
    /\ \A k \in 1..Len(CallsAt({308})) : CallsAt({308})[k].out = <<>>

\* the alternatives handed to the binder, as <<key, slot-selection spec>> pairs
TriedAlternatives == [k \in 1..Len(CallsAt({323})) |-> <<CallsAt({323})[k].num, CallsAt({323})[k].select>>]

\* C13 as stated: when several primary templates are eligible and all give nothing,
\* the alternatives tried are exactly those the first eligible template declares,
\* each with the slot-selection spec paired with it there.
C13_AlternativesExactlyOfFirst ==
    AllPrimariesEmpty =>
        TriedAlternatives = ExpectedPrimaries(calls[1])[1].alternative_templates

\* C13 amended: when several primary templates are eligible and all give nothing,
\* no alternative is tried unless use_alt_templates is set; when it is set the
\* alternatives tried are those the first eligible template declares, with the
\* slot-selection spec paired with each there, in declared order up to and
\* including the first that gives a result (all of them when none does), and the
\* call returns the output of the last one tried.  Alternatives only other
\* eligible templates declare are never tried.
C13_AlternativesOfFirstOnly ==
    AllPrimariesEmpty =>
        LET declared == ExpectedPrimaries(calls[1])[1].alternative_templates
            alt == CallsAt({323})
        IN  /\ Len(alt) <= Len(declared)
            /\ TriedAlternatives = SubSeq(declared, 1, Len(alt))
            /\ \A k \in 1..(Len(alt) - 1) : alt[k].out = <<>>
            /\ ~use_alt_templates => alt = <<>>
            /\ (use_alt_templates /\ \A k \in 1..Len(alt) : alt[k].out = <<>>)
                  => Len(alt) = Len(declared)
            /\ result = LastOut(calls)

C13_Witness ==
    /\ AllPrimariesEmpty
    /\ result = <<>>
    /\ CallsAt({323}) # <<>>
    /\ \E a \in Range(ExpectedPrimaries(calls[1])[2].alternative_templates) :
          a \notin Range(TriedAlternatives)
    /\ \A k \in 1..Len(CallsAt({323})) :
          CallsAt({323})[k].select # TemplateByKey(CallsAt({323})[k].num).entities_and_types_select

SelectorReturned == op = "RuleBasedSelector" /\ pc = "done"

NoRepeats(list) == \A a, b \in 1..Len(list) : list[a] = list[b] => a = b

\* the skills the rule taken for a dialog stands for
BranchSkills(dialog, skills) ==
    IF dialog.new_persona THEN skills = {"personality_catcher", "dummy_skill"}
    ELSE IF intent_detected(dialog) THEN skills = {"intent_responder", "dummy_skill"}
    ELSE IF dialog.restricted_topics
            \/ (sensitive_topics_detected(dialog) /\ sensitive_dialogacts_detected(dialog))
         THEN skills = {"program_y_dangerous", "cobotqa", "dummy_skill"}
    ELSE IF dialog.n_utterances > 1 /\ dialog.asr_confidence = "very_low"
         THEN skills = {"misheard_asr", "dummy_skill"}
    ELSE {"program_y", "cobotqa", "alice"} \subseteq skills /\ "misheard_asr" \notin skills

\* C14: RuleBasedSelector.__call__ returns one skill list per dialog of the batch, in
\* batch order (list i holds the skills of the rule dialog i falls under), and every
\* list contains "dummy_skill" and no skill name twice, whichever rule was taken.
C14_OneListPerDialogWithDummy ==
    /\ op = "RuleBasedSelector" => Len(skill_names) <= Len(states_batch)
    /\ SelectorReturned =>
          /\ Len(result) = Len(states_batch)
          /\ \A i \in 1..Len(result) :
                /\ \E k \in 1..Len(result[i]) : result[i][k] = "dummy_skill"
                /\ NoRepeats(result[i])
                /\ BranchSkills(states_batch[i], Range(result[i]))

C14_Witness ==
    /\ SelectorReturned
    /\ Len(states_batch) = 2
    /\ Range(result[1]) = {"misheard_asr", "dummy_skill"}
    /\ ~NoRepeats(AppendedSkills(states_batch[2]))
    /\ "program_y" \in Range(result[2])
    /\ Len(result[2]) < Len(AppendedSkills(states_batch[2]))

====
